---- MODULE Spec2Model ----
(***************************************************************************)
(* Hexagon-Game: the hexagonal map viewer.  The model follows the newest   *)
(* iteration of each component: the reference-counted HexagonTile, the     *)
(* ThreeJSSceneManager with descend/ascend timelines, the MapRenderer with *)
(* focus and navigation buttons, the HexagonalMap holding mapLevel, the    *)
(* useHexagonTiles hook with the isFetchingRef guard, and the Player.      *)
(*                                                                         *)
(* One action is one task of the browser's event loop: an event handler,   *)
(* a timer/animation callback or a promise completion, together with the   *)
(* React re-render and the effects that the state changes of that task     *)
(* cause (React flushes them before the next discrete event).              *)
(***************************************************************************)
EXTENDS Integers, Sequences, FiniteSets, TLC

----------------------------------------------------------------------------
(* Bounds of the model *)

\* total number of HexagonTile objects constructed in one behaviour
MaxTiles == 3
\* number of gsap transition timelines alive at the same time
MaxTimelines == 2
\* number of player move tweens pending at the same time
MaxMoves == 1

\* axial coordinates given to a function applied on its own: -MaxCoord..MaxCoord
MaxCoord == 1

\* tiles in a tile list given to findNearestTile applied on its own
MaxNear == 2

\* wheel listeners registered at the time of a wheel event
MaxListeners == 3

----------------------------------------------------------------------------
(* Program constants *)

\* <HexagonalMap size={16} tileSize={1} ... initialMapLevel={2} />
size == 16
tileSize == 1
initialMapLevel == 2
\* "mapLevel > 1" and Math.max(.., 1) in MapRenderer.handleDescend
minLevel == 1
\* "mapLevel < 4" and Math.min(.., 4) in MapRenderer.handleAscend
maxLevel == 4
\* "distance < 4" in MapRenderer.moveToTile
movementRange == 4

\* the id 0 stands for null where a HexagonTile reference is expected
NoTile == 0

Abs(x) == IF x < 0 THEN 0 - x ELSE x

Max2(a, b) == IF a >= b THEN a ELSE b

Min2(a, b) == IF a <= b THEN a ELSE b

Range(s) == {s[i] : i \in 1..Len(s)}

----------------------------------------------------------------------------
(* Tile data delivered by the tile data source *)

\* terrain strings the API may send; "sand" is not one the client knows
Terrains == {"grass", "sand"}

\* getModelNameForTerrain: unknown terrain falls back to the grass model
getModelNameForTerrain(terrain) ==
  CASE terrain = "grass"    -> "simple_tile_grass"
    [] terrain = "forest"   -> "simple_tile_forest"
    [] terrain = "mountain" -> "simple_tile_mountain"
    [] terrain = "water"    -> "simple_tile_water"
    [] OTHER                -> "simple_tile_grass"

Models == {getModelNameForTerrain(t) : t \in Terrains}

\* responses of GET /api/v1/maps/procedural/{size}?level={mapLevel}:
\* a single tile, and two tiles that share one model
TileDataA == << [q |-> 0, r |-> 0, terrain |-> "grass"] >>

TileDataB == << [q |-> 0, r |-> 0, terrain |-> "grass"],
                [q |-> 1, r |-> 0, terrain |-> "sand"] >>

\* the responses the fetch is let to deliver
DataSets == {TileDataA, TileDataB}

\* responses with one tile at distance 3 from the origin, and at distance 4
TileDataInRange == << [q |-> 3, r |-> 0, terrain |-> "grass"] >>

TileDataOutOfRange == << [q |-> 4, r |-> 0, terrain |-> "grass"] >>

\* the responses delivered in play
PlayData == DataSets \cup {TileDataInRange, TileDataOutOfRange}

\* a response with two tiles at distance 3 from the origin, on opposite
\* sides of it
TileDataTwoSides == << [q |-> 3, r |-> 0, terrain |-> "grass"],
                       [q |-> 0 - 3, r |-> 0, terrain |-> "grass"] >>

\* a response with no tile in it: the array is empty
TileDataEmpty == << >>

\* the responses delivered while the level is changed back and forth
LevelData == {TileDataA, TileDataEmpty}

\* a response with one tile near the rim of a map of size 16: x = 16.5
TileDataFar == << [q |-> 11, r |-> 0, terrain |-> "grass"] >>

\* gameState === null
NoData == [tiles |-> << >>, level |-> 0]

----------------------------------------------------------------------------
(* World positions.  x is kept in halves of a length unit (x2 = 2*x) and   *)
(* z as the pair (zA, zB) with z = zA + zB * sqrt(3)/2, so that the        *)
(* positions of the source are exact.                                      *)

\* HexagonTile constructor: x = size * 3/2 * q, z = size * sqrt(3) * (r + q/2)
TileX2(q) == 3 * tileSize * q

TileZB(q, r) == tileSize * (2 * r + q)

Pos(x2, y, zA, zB) == [x2 |-> x2, y |-> y, zA |-> zA, zB |-> zB]

\* sign of zA + zB*sqrt(3)/2 - c, decided in integers
CmpZ(zA, zB, c) ==
  LET d == 2 * (c - zA)      \* compare zB*sqrt(3) with d
      l == IF zB >= 0 THEN 3 * zB * zB ELSE 0 - 3 * zB * zB
      rr == IF d >= 0 THEN d * d ELSE 0 - d * d
  IN  IF l < rr THEN 0 - 1 ELSE IF l > rr THEN 1 ELSE 0

\* updateCameraPosition: clamp x to [-mapSize, mapSize], z to [0, 3*mapSize]
ClampPan(p) ==
  LET mapSize == size * tileSize
      cx == Max2(0 - 2 * mapSize, Min2(2 * mapSize, p.x2))
      lo == CmpZ(p.zA, p.zB, 0) < 0
      hi == CmpZ(p.zA, p.zB, 3 * mapSize) > 0
  IN  [p EXCEPT !.x2 = cx,
                !.zA = IF lo THEN 0 ELSE IF hi THEN 3 * mapSize ELSE p.zA,
                !.zB = IF lo \/ hi THEN 0 ELSE p.zB]

\* scene effect: cameraPositionRef.current.set(0, size*tileSize, size*tileSize)
\* followed by updateCameraPosition()
InitialCamera == ClampPan(Pos(0, size * tileSize, size * tileSize, 0))

\* a camera that looks at the origin wherever it is
LookAhead_Origin(p) == [x2 |-> 0, zA |-> 0, zB |-> 0]

\* updateCameraPosition: lookAt(x, 0, z - y) for the camera at p
LookAhead(p) == [x2 |-> p.x2, zA |-> p.zA - p.y, zB |-> p.zB]

\* no focus tween is running
NoTween == [on |-> FALSE, x2 |-> 0, zA |-> 0, zB |-> 0, cam |-> FALSE]

----------------------------------------------------------------------------
(* Hex distance used by MapRenderer.moveToTile *)

\* the third term with a sign slipped
hexDistance_SignSlip(aq, ar, bq, br) ==
  Max2(Max2(Abs(bq - aq), Abs(br - ar)), Abs(bq + br - aq + ar))

hexDistance(aq, ar, bq, br) ==
  Max2(Max2(Abs(bq - aq), Abs(br - ar)), Abs(bq + br - aq - ar))

----------------------------------------------------------------------------
VARIABLES
  \* HexagonTile statics
  loadedModels,       \* modelName -> [present, refCount]: the model cache
  modelLoadPromises,  \* modelName -> "none" | "pending" | "resolved" | "rejected"
  freed,              \* models whose geometry and materials were disposed
  loadCount,          \* modelName -> number of GLTFLoader.load calls made
  held,               \* modelName -> resolved acquisitions minus cached
                      \* releases since the cache entry was created (history)
  \* HexagonTile objects
  tile,               \* id -> the fields of the HexagonTile with that id
  nTiles,             \* number of HexagonTile objects constructed so far
  \* HexagonalMap
  mapLevel,
  \* useHexagonTiles
  gameState,          \* NoData or [tiles, level]: the data last fetched
  tiles,              \* the hook's tiles state: sequence of tile ids
  isFetching,         \* isFetchingRef.current
  fetchLevel,         \* the level the fetch in flight was issued for
  inFlight,           \* requests sent and not yet settled (history)
  \* ThreeJSSceneManager
  currentTiles,       \* sequence of tile ids; also the tiles in the scene
  timelines,          \* the gsap transition timelines not yet finished
  overlayOpacity,     \* "transparent" | "partial" | "opaque"
  cameraPositionRef,  \* cameraPositionRef.current
  cameraPos,          \* position of the current camera object
  cameraLookAt,       \* ground point the current camera was last aimed at
  focusTween,         \* the gsap tween MapRenderer.focusOnTile started
  player,             \* logical coordinates of the current Player object
  pendingMoves,       \* move tweens of the current Player not yet complete
  \* MapRenderer
  focusedTile,        \* tile id or NoTile
  isDragging,
  \* the pointer: whether its button is down, and whether it has been
  \* more than 5 pixels from where it was last pressed (history)
  pointer,
  \* the argument and the result of a function of the program applied on
  \* its own (NoProbe while the program runs)
  probe,
  \* history: whether the last task was a navigation request or the first
  \* .call of a timeline (op), whether the request started a transition (ok)
  \* and focusedTile at the request (f); a button press with no tile
  \* focused changes nothing and is not recorded
  last

vars == << loadedModels, modelLoadPromises, freed, loadCount, held, tile,
           nTiles, mapLevel, gameState, tiles, isFetching, fetchLevel,
           currentTiles, timelines, overlayOpacity, cameraPositionRef,
           cameraPos, cameraLookAt, focusTween, player, pendingMoves,
           focusedTile, isDragging, probe, last, inFlight, pointer >>

registryVars == << loadedModels, modelLoadPromises, freed, loadCount, held >>

tileVars == << tile, nTiles >>

hookVars == << gameState, tiles, isFetching, fetchLevel, inFlight >>

cameraVars == << cameraPositionRef, cameraPos, cameraLookAt, focusTween >>

playerVars == << player, pendingMoves >>

TileIds == 1..MaxTiles

\* slot of a HexagonTile that has not been constructed; awaiting: its
\* addGLTFModel is suspended at the await; disposed: dispose() has been
\* called on it (history, the class keeps no such field); borders: the
\* border groups attached to the tile as children
NoTileRec == [q |-> 0, r |-> 0, mapLevel |-> 0, modelName |-> "none",
              modelInstance |-> FALSE, awaiting |-> FALSE,
              focusBorder |-> FALSE, borders |-> 0, disposed |-> FALSE]

\* the objects the tile operations read and write, as one record
World == [tile |-> tile, nTiles |-> nTiles, loadedModels |-> loadedModels,
          modelLoadPromises |-> modelLoadPromises, freed |-> freed,
          loadCount |-> loadCount, held |-> held]

----------------------------------------------------------------------------
(* HexagonTile *)

\* static loadGLTFModel: cached -> refCount++, else start or join a load
loadGLTFModel(W, m) ==
  IF W.loadedModels[m].present
  THEN [W EXCEPT !.loadedModels[m].refCount = @ + 1, !.held[m] = @ + 1]
  ELSE IF W.modelLoadPromises[m] = "none"
       THEN [W EXCEPT !.modelLoadPromises[m] = "pending",
                      !.loadCount[m] = @ + 1]
       ELSE W

\* what "await HexagonTile.loadGLTFModel(modelName)" yields once the
\* constructor's task has ended: a model, an error, or still waiting
AwaitOutcome(W, m) ==
  IF W.loadedModels[m].present THEN "model"
  ELSE CASE W.modelLoadPromises[m] = "resolved" -> "model"
         [] W.modelLoadPromises[m] = "rejected" -> "error"
         [] OTHER -> "wait"

\* constructor + addGLTFModel up to the first suspension
NewTile(W, d, lvl) ==
  LET m   == getModelNameForTerrain(d.terrain)
      id  == W.nTiles + 1
      W1  == loadGLTFModel(W, m)
      out == AwaitOutcome(W1, m)
      rec == [q |-> d.q, r |-> d.r, mapLevel |-> lvl, modelName |-> m,
              modelInstance |-> (out = "model"), awaiting |-> (out = "wait"),
              focusBorder |-> FALSE, borders |-> 0, disposed |-> FALSE]
  IN  [W1 EXCEPT !.tile[id] = rec, !.nTiles = id]

\* a dispose that decrements but never deletes the entry
ReleaseEntry_NeverDeletes(e) == [e EXCEPT !.refCount = @ - 1]

\* the cache entry after one refCount-- ; the entry is deleted at 0
ReleaseEntry(e) ==
  IF e.refCount - 1 = 0
  THEN [present |-> FALSE, refCount |-> 0]
  ELSE [e EXCEPT !.refCount = @ - 1]

\* an addFocusBorder without the "if (this.focusBorder) return"
addFocusBorder_NoGuard(tl, t) ==
  [tl EXCEPT ![t].focusBorder = TRUE, ![t].borders = @ + 1]

\* addFocusBorder: returns at once if the tile has a border, else builds
\* the border group, keeps it in this.focusBorder and adds it as a child
addFocusBorder(tl, t) ==
  [tl EXCEPT ![t] = IF @.focusBorder THEN @
                    ELSE [@ EXCEPT !.focusBorder = TRUE, !.borders = @ + 1]]

\* removeFocusBorder: removes the child and clears this.focusBorder, if set
removeFocusBorder(tl, t) ==
  [tl EXCEPT ![t] = IF @.focusBorder
                    THEN [@ EXCEPT !.focusBorder = FALSE, !.borders = @ - 1]
                    ELSE @]

\* a dispose that leaves the border attached
dispose_KeepsBorder(W, t) ==
  LET m  == W.tile[t].modelName
      W1 == [W EXCEPT !.tile[t].modelInstance = FALSE,
                      !.tile[t].disposed = TRUE]
  IN  IF W1.loadedModels[m].present
      THEN LET e == ReleaseEntry(W1.loadedModels[m])
           IN  [W1 EXCEPT !.loadedModels[m] = e,
                          !.held[m] = IF e.present THEN @ - 1 ELSE 0,
                          !.freed = IF e.present THEN @ ELSE @ \cup {m}]
      ELSE W1

\* dispose(): detach the instance, release the cache entry, drop the border
dispose(W, t) ==
  LET m  == W.tile[t].modelName
      W1 == [W EXCEPT !.tile[t].modelInstance = FALSE,
                      !.tile[t].disposed = TRUE]
      W2 == IF W1.loadedModels[m].present
            THEN LET e == ReleaseEntry(W1.loadedModels[m])
                 IN  [W1 EXCEPT !.loadedModels[m] = e,
                                !.held[m] = IF e.present THEN @ - 1 ELSE 0,
                                !.freed = IF e.present THEN @ ELSE @ \cup {m}]
            ELSE W1
  IN  [W2 EXCEPT !.tile = removeFocusBorder(@, t)]

----------------------------------------------------------------------------
(* Helpers of the components *)

\* useHexagonTiles tile-build effect: one HexagonTile per record, in order
RECURSIVE BuildFrom(_, _, _, _)
BuildFrom(W, data, i, lvl) ==
  IF i > Len(data) THEN W
  ELSE BuildFrom(NewTile(W, data[i], lvl), data, i + 1, lvl)

\* the ids of the tiles BuildFrom constructs when n tiles exist already
NewIds(n, data) == [k \in 1..Len(data) |-> n + k]

\* ThreeJSSceneManager.disposeTiles: currentTiles.forEach(tile.dispose())
RECURSIVE DisposeAll(_, _, _)
DisposeAll(W, ts, i) ==
  IF i > Len(ts) THEN W
  ELSE DisposeAll(dispose(W, ts[i]), ts, i + 1)

\* tiles.find(tile => tile.q === q && tile.r === r), NoTile for undefined
FindTile(ts, tl, q, r) ==
  LET hits == {i \in 1..Len(ts) : tl[ts[i]].q = q /\ tl[ts[i]].r = r}
  IN  IF hits = {} THEN NoTile
      ELSE ts[CHOOSE i \in hits : \A j \in hits : i <= j]

\* a descend guard that forgets the level
CanDescend_AnyLevel(f, lvl) == f # NoTile

\* MapRenderer.handleDescend: if (focusedTile && mapLevel > 1)
CanDescend(f, lvl) == f # NoTile /\ lvl > minLevel

\* an ascend guard that is off by one
CanAscend_OffByOne(f, lvl) == f # NoTile /\ lvl <= maxLevel

\* MapRenderer.handleAscend: if (focusedTile && mapLevel < 4)
CanAscend(f, lvl) == f # NoTile /\ lvl < maxLevel

\* HexagonalMap.handleDescend: setMapLevel(newMapData.mapLevel)
HexagonalMap_handleDescend(newMapData) == newMapData.mapLevel

\* the onAscend callback handed to ThreeJSSceneManager: the Navigation
\* Context takes the level of the request
HexagonalMap_handleAscend(newMapData) == newMapData.mapLevel

\* a scene effect that leaves the pan position where it was
SceneEffectCamera_KeepsPan(ref) == ClampPan(ref)

\* the scene effect runs again whenever currentTiles changes: it sets
\* cameraPositionRef.current to the initial framing and clamps it
SceneEffectCamera(ref) ==
  ClampPan([ref EXCEPT !.x2 = 0, !.y = size * tileSize,
                       !.zA = size * tileSize, !.zB = 0])

\* ... and creates new Player(0, 0, tileSize)
NewPlayer == [q |-> 0, r |-> 0]

\* index of the oldest timeline in the given phase, 0 if there is none
FirstInPhase(tls, ph) ==
  LET hits == {i \in 1..Len(tls) : tls[i].phase = ph}
  IN  IF hits = {} THEN 0 ELSE CHOOSE i \in hits : \A j \in hits : i <= j

RemoveAt(s, i) == [k \in 1..(Len(s) - 1) |-> IF k < i THEN s[k] ELSE s[k + 1]]

SetWorld(W) ==
  /\ tile' = W.tile
  /\ nTiles' = W.nTiles
  /\ loadedModels' = W.loadedModels
  /\ modelLoadPromises' = W.modelLoadPromises
  /\ freed' = W.freed
  /\ loadCount' = W.loadCount
  /\ held' = W.held

Other == [op |-> "other", ok |-> FALSE, f |-> NoTile]

\* no function is being applied on its own
NoProbe == [fn |-> "none"]

----------------------------------------------------------------------------
(* Initial state: the components are mounted, the initial fetch is in      *)
(* flight, the scene effect has created the camera and the player.         *)

\* fetchTileData: what the GET to /api/v1/maps/procedural/${size}?level=${mapLevel}
\* carries: the size and the level, and nothing else
fetchRequest(lvl) == [size |-> size, level |-> lvl]

\* the pointer at rest
NoPointer == [down |-> FALSE, moved |-> FALSE]

\* The request slot of the hook: isFetchingRef.current, the level of the
\* request in flight, the number of requests sent and not yet settled
NoFetch == [isFetching |-> FALSE, fetchLevel |-> 0, inFlight |-> 0]

\* a fetchTileData that sends its request whatever the flag says
fetchTileData_NoGuard(F, lvl) ==
  [isFetching |-> TRUE, fetchLevel |-> fetchRequest(lvl).level,
   inFlight |-> F.inFlight + 1]

\* fetchTileData up to its await: if (isFetchingRef.current) return;
\* isFetchingRef.current = true; then the request for mapLevel is sent
fetchTileData(F, lvl) ==
  IF F.isFetching THEN F
  ELSE [isFetching |-> TRUE, fetchLevel |-> fetchRequest(lvl).level,
        inFlight |-> F.inFlight + 1]

\* fetchTileData after its await, on either path:
\* finally { isFetchingRef.current = false; }
fetchSettled(F) ==
  [isFetching |-> FALSE, fetchLevel |-> 0, inFlight |-> F.inFlight - 1]

\* the slot as the state holds it
Fetch == [isFetching |-> isFetching, fetchLevel |-> fetchLevel,
          inFlight |-> inFlight]

SetFetch(F) ==
  /\ isFetching' = F.isFetching
  /\ fetchLevel' = F.fetchLevel
  /\ inFlight' = F.inFlight


ProgramInit ==
  /\ loadedModels = [m \in Models |-> [present |-> FALSE, refCount |-> 0]]
  /\ modelLoadPromises = [m \in Models |-> "none"]
  /\ freed = {}
  /\ loadCount = [m \in Models |-> 0]
  /\ held = [m \in Models |-> 0]
  /\ tile = [i \in TileIds |-> NoTileRec]
  /\ nTiles = 0
  /\ mapLevel = initialMapLevel
  /\ gameState = NoData
  /\ tiles = << >>
  /\ isFetching = fetchTileData(NoFetch, initialMapLevel).isFetching
  /\ fetchLevel = fetchTileData(NoFetch, initialMapLevel).fetchLevel
  /\ inFlight = fetchTileData(NoFetch, initialMapLevel).inFlight
  /\ currentTiles = << >>
  /\ timelines = << >>
  /\ overlayOpacity = "transparent"
  /\ cameraPositionRef = InitialCamera
  /\ cameraPos = InitialCamera
  /\ cameraLookAt = LookAhead(InitialCamera)
  /\ focusTween = NoTween
  /\ player = NewPlayer
  /\ pendingMoves = << >>
  /\ focusedTile = NoTile
  /\ isDragging = FALSE
  /\ pointer = NoPointer
  /\ last = Other

Init == ProgramInit /\ probe = NoProbe

----------------------------------------------------------------------------
(* useHexagonTiles *)

\* fetchTileData resolves with data: setGameState, then the tile-build
\* effect, then ThreeJSSceneManager.updateScene and the scene effect
FetchResolve(data) ==
  /\ isFetching
  /\ nTiles + Len(data) <= MaxTiles
  /\ gameState' = [tiles |-> data, level |-> fetchLevel]
  /\ SetFetch(fetchSettled(Fetch))
  /\ SetWorld(BuildFrom(World, data, 1, mapLevel))
  /\ tiles' = NewIds(nTiles, data)
  /\ currentTiles' = NewIds(nTiles, data)
  /\ cameraPositionRef' = SceneEffectCamera(cameraPositionRef)
  /\ cameraPos' = SceneEffectCamera(cameraPositionRef)
  /\ cameraLookAt' = LookAhead(SceneEffectCamera(cameraPositionRef))
  /\ focusTween' = IF focusTween.on THEN [focusTween EXCEPT !.cam = FALSE]
                   ELSE focusTween
  /\ player' = NewPlayer
  /\ pendingMoves' = << >>
  /\ last' = Other
  /\ UNCHANGED << probe, pointer, mapLevel, timelines, overlayOpacity, focusedTile, isDragging >>

\* fetchTileData fails (network error, bad status, unexpected body):
\* the catch logs, the finally clears the flag
FetchFail ==
  /\ isFetching
  /\ SetFetch(fetchSettled(Fetch))
  /\ last' = Other
  /\ UNCHANGED << probe, pointer, registryVars, tileVars, mapLevel, gameState, tiles,
                  currentTiles, timelines, overlayOpacity, cameraVars,
                  playerVars, focusedTile, isDragging >>

----------------------------------------------------------------------------
(* GLTFLoader callbacks *)

\* onLoad: the cache entry is created with refCount 1, the promise resolves
\* and every addGLTFModel waiting on it attaches a clone
LoadResolve(m) ==
  /\ modelLoadPromises[m] = "pending"
  /\ LET joined == {t \in 1..nTiles : tile[t].awaiting /\ tile[t].modelName = m}
     IN  /\ tile' = [t \in TileIds |->
                       IF t \in joined
                       THEN [tile[t] EXCEPT !.awaiting = FALSE,
                                            !.modelInstance = TRUE]
                       ELSE tile[t]]
         /\ held' = [held EXCEPT ![m] = Cardinality(joined)]
  /\ loadedModels' = [loadedModels EXCEPT ![m] = [present |-> TRUE, refCount |-> 1]]
  /\ modelLoadPromises' = [modelLoadPromises EXCEPT ![m] = "resolved"]
  /\ last' = Other
  /\ UNCHANGED << probe, pointer, freed, loadCount, nTiles, mapLevel, hookVars, currentTiles,
                  timelines, overlayOpacity, cameraVars, playerVars,
                  focusedTile, isDragging >>

\* an onError that leaves a cache entry for the model behind
LoadReject_CachesEntry(m) ==
  /\ modelLoadPromises[m] = "pending"
  /\ LET joined == {t \in 1..nTiles : tile[t].awaiting /\ tile[t].modelName = m}
     IN  /\ tile' = [t \in TileIds |->
                       IF t \in joined THEN [tile[t] EXCEPT !.awaiting = FALSE]
                       ELSE tile[t]]
  /\ modelLoadPromises' = [modelLoadPromises EXCEPT ![m] = "rejected"]
  /\ loadedModels' = [loadedModels EXCEPT ![m] = [present |-> TRUE, refCount |-> 1]]
  /\ last' = Other
  /\ UNCHANGED << probe, pointer, freed, loadCount, held, nTiles, mapLevel,
                  hookVars, currentTiles, timelines, overlayOpacity,
                  cameraVars, playerVars, focusedTile, isDragging >>

\* onError: the promise rejects, every addGLTFModel waiting on it logs
LoadReject(m) ==
  /\ modelLoadPromises[m] = "pending"
  /\ LET joined == {t \in 1..nTiles : tile[t].awaiting /\ tile[t].modelName = m}
     IN  /\ tile' = [t \in TileIds |->
                       IF t \in joined THEN [tile[t] EXCEPT !.awaiting = FALSE]
                       ELSE tile[t]]
  /\ modelLoadPromises' = [modelLoadPromises EXCEPT ![m] = "rejected"]
  /\ last' = Other
  /\ UNCHANGED << probe, pointer, loadedModels, freed, loadCount, held, nTiles, mapLevel,
                  hookVars, currentTiles, timelines, overlayOpacity,
                  cameraVars, playerVars, focusedTile, isDragging >>

----------------------------------------------------------------------------
(* MapRenderer *)

\* handleMouseDown: remember the press position, setIsDragging(false)
handleMouseDown ==
  /\ currentTiles # << >>
  /\ isDragging' = FALSE
  /\ last' = Other
  /\ UNCHANGED << probe, registryVars, tileVars, mapLevel, hookVars, currentTiles,
                  timelines, overlayOpacity, cameraVars, playerVars,
                  focusedTile >>

\* the handler called on its own
MouseDown == handleMouseDown /\ UNCHANGED pointer

\* handleMouseMove with the pointer more than 5 pixels from the press
handleMouseMove ==
  /\ currentTiles # << >>
  /\ isDragging' = TRUE
  /\ last' = Other
  /\ UNCHANGED << probe, registryVars, tileVars, mapLevel, hookVars, currentTiles,
                  timelines, overlayOpacity, cameraVars, playerVars,
                  focusedTile >>

\* the handler called on its own
MouseMoveFar == handleMouseMove /\ UNCHANGED pointer

\* a distance that looks at x only
Dist4_XOnly(p, q, r) == (p.x2 - TileX2(q)) * (p.x2 - TileX2(q))

\* four times the squared distance from ground point p to the position of
\* a tile at (q, r): (2 dx)^2 + 3 (dzB)^2, with z = zB * sqrt(3)/2
Dist4(p, q, r) ==
  (p.x2 - TileX2(q)) * (p.x2 - TileX2(q)) + 3 * (p.zB - TileZB(q, r)) * (p.zB - TileZB(q, r))

\* the forEach of findNearestTile from index i on: nearest and minDistance
\* so far are best and bestD (best = NoTile stands for minDistance = Infinity)
RECURSIVE nearestFrom(_, _, _, _, _, _)
nearestFrom(p, ts, tl, i, best, bestD) ==
  IF i > Len(ts) THEN best
  ELSE IF best = NoTile \/ Dist4(p, tl[ts[i]].q, tl[ts[i]].r) < bestD
       THEN nearestFrom(p, ts, tl, i + 1, ts[i], Dist4(p, tl[ts[i]].q, tl[ts[i]].r))
       ELSE nearestFrom(p, ts, tl, i + 1, best, bestD)

\* findNearestTile: null for no tiles, else the first tile of the array at
\* the least distance from the point ("distance < minDistance")
findNearestTile(p, ts, tl) == nearestFrom(p, ts, tl, 1, NoTile, 0)

\* the ground point lies inside the circle inscribed in the hexagon of a
\* tile at (q, r)
UnderTile(p, q, r) == Dist4(p, q, r) < 3 * tileSize * tileSize

\* ground points the click ray may hit: the centres of the tiles at (0, 0)
\* and (1, 0), and a point at x = 30, z = 0 where no tile of the data lies
ClickPoints == { [x2 |-> TileX2(0), zB |-> TileZB(0, 0)],
                 [x2 |-> TileX2(1), zB |-> TileZB(1, 0)],
                 [x2 |-> 60, zB |-> 0] }

\* a gate that lets a move of exactly movementRange through
MoveAllowed_Inclusive(pl, tq, tr) == hexDistance(pl.q, pl.r, tq, tr) <= movementRange

\* moveToTile: the move is handed to movePlayer only within movementRange
MoveAllowed(pl, tq, tr) == hexDistance(pl.q, pl.r, tq, tr) < movementRange

\* handleClick with the ray hitting the ground at p: clickedTile is the
\* nearest tile, which exists whenever there are tiles; moveToTile, then
\* focusOnTile.  At most cap moves are in flight at a time.
handleClick(p, cap) ==
  /\ currentTiles # << >>
  /\ ~isDragging
  /\ \E t \in {findNearestTile(p, currentTiles, tile)} :
     LET moves == MoveAllowed(player, tile[t].q, tile[t].r)
                    /\ FindTile(currentTiles, tile, tile[t].q, tile[t].r) # NoTile
         t1 == IF focusedTile # NoTile THEN removeFocusBorder(tile, focusedTile)
               ELSE tile
     IN  /\ moves => Len(pendingMoves) < cap
         /\ pendingMoves' = IF moves
                            THEN Append(pendingMoves, [q |-> tile[t].q, r |-> tile[t].r])
                            ELSE pendingMoves
         /\ tile' = addFocusBorder(t1, t)
         /\ focusedTile' = t
         /\ focusTween' = [on |-> TRUE, x2 |-> TileX2(tile[t].q), zA |-> cameraPos.y,
                           zB |-> TileZB(tile[t].q, tile[t].r), cam |-> TRUE]
  /\ last' = Other
  /\ UNCHANGED << probe, registryVars, nTiles, mapLevel, hookVars, currentTiles,
                  timelines, overlayOpacity, cameraPositionRef, cameraPos,
                  cameraLookAt, player, isDragging >>

\* the handler called on its own
Click(p) == handleClick(p, MaxMoves) /\ UNCHANGED pointer

\* a pointer event no listener of MapRenderer hears, or a click that
\* handleClick returns from at once: nothing changes but the pointer
NoHandler ==
  UNCHANGED << probe, registryVars, tileVars, mapLevel, hookVars, currentTiles,
               timelines, overlayOpacity, cameraVars, playerVars, focusedTile,
               isDragging, last >>

\* MapRenderer's effect registers mousedown, mousemove and click on
\* window only when tiles && tiles.length > 0
Listening == currentTiles # << >>

\* the button goes down: the mousedown event
Press ==
  /\ ~pointer.down
  /\ pointer' = [down |-> TRUE, moved |-> FALSE]
  /\ IF Listening THEN handleMouseDown ELSE NoHandler

\* with the button down the pointer goes more than 5 pixels from where it
\* was pressed: the mousemove event
Drag ==
  /\ pointer.down
  /\ pointer' = [pointer EXCEPT !.moved = TRUE]
  /\ IF Listening THEN handleMouseMove ELSE NoHandler

\* the button goes up over the ground point p: the click event
Release(p, cap) ==
  /\ pointer.down
  /\ pointer' = NoPointer
  /\ \/ handleClick(p, cap)
     \/ ~(Listening /\ ~isDragging) /\ NoHandler

\* the focus tween reaches its target: cameraPositionRef.current.x/z, and
\* the camera the tween captured is moved onto it
FocusTweenComplete ==
  /\ focusTween.on
  /\ cameraPositionRef' = [cameraPositionRef EXCEPT !.x2 = focusTween.x2,
                                                    !.zA = focusTween.zA,
                                                    !.zB = focusTween.zB]
  /\ cameraPos' = IF focusTween.cam THEN cameraPositionRef' ELSE cameraPos
  /\ cameraLookAt' = IF focusTween.cam THEN LookAhead(cameraPositionRef')
                     ELSE cameraLookAt
  /\ focusTween' = NoTween
  /\ last' = Other
  /\ UNCHANGED << probe, pointer, registryVars, tileVars, mapLevel, hookVars, currentTiles,
                  timelines, overlayOpacity, playerVars, focusedTile,
                  isDragging >>

\* movePlayer's tween completes: player.moveTo(targetQ, targetR, ..)
MoveComplete ==
  /\ pendingMoves # << >>
  /\ player' = Head(pendingMoves)
  /\ pendingMoves' = Tail(pendingMoves)
  /\ last' = Other
  /\ UNCHANGED << probe, pointer, registryVars, tileVars, mapLevel, hookVars, currentTiles,
                  timelines, overlayOpacity, cameraVars, focusedTile,
                  isDragging >>

\* handleWheel's test of the height the zoom would give
ZoomAccepted(y) == y > tileSize * 2 /\ y < size * tileSize * 4

\* handleWheel on cameraPositionRef.current = ref: newPosition is ref moved
\* by zoomDelta along forward = (0, -1, -1) normalized, that is by k on y
\* and by k on z with k = - deltaY * 0.1 / sqrt(2); it is taken if its
\* height is accepted; updateCameraPosition() clamps in either case
handleWheel(ref, k) ==
  LET newPosition == [ref EXCEPT !.y = @ + k, !.zA = @ + k]
  IN  ClampPan(IF ZoomAccepted(newPosition.y) THEN newPosition ELSE ref)

\* the wheel turns the model lets happen, as the change k of the height
WheelSteps == {0 - 14, 42}

\* One call of handleWheel. A wheel event calls it once for the listener
\* on window and once for each listener on document (the cleanup of the
\* scene effect removes only the one on window); each call is a step.
Wheel(k) ==
  /\ cameraPositionRef' = handleWheel(cameraPositionRef, k)
  /\ cameraPos' = cameraPositionRef'
  /\ cameraLookAt' = LookAhead(cameraPositionRef')
  /\ last' = Other
  /\ UNCHANGED << probe, pointer, registryVars, tileVars, mapLevel, hookVars, currentTiles,
                  timelines, overlayOpacity, focusTween, playerVars,
                  focusedTile, isDragging >>

\* handleWheel called n times in a row on ref
RECURSIVE handleWheelTimes(_, _, _)
handleWheelTimes(ref, k, n) ==
  IF n = 0 THEN ref ELSE handleWheelTimes(handleWheel(ref, k), k, n - 1)

\* The listeners a wheel event reaches.  Each run of the scene effect
\* registers handleWheel on document and on window, and its cleanup
\* removes the one on window only: after the run at mount there are two,
\* and every later run (a change of currentTiles) adds one on document.
\* All of them write the same cameraPositionRef.
WheelListeners == 2..MaxListeners

\* One wheel event with n listeners registered: handleWheel runs n times
WheelEvent(k, n) ==
  /\ cameraPositionRef' = handleWheelTimes(cameraPositionRef, k, n)
  /\ cameraPos' = cameraPositionRef'
  /\ cameraLookAt' = LookAhead(cameraPositionRef')
  /\ last' = Other
  /\ UNCHANGED << probe, pointer, registryVars, tileVars, mapLevel, hookVars, currentTiles,
                  timelines, overlayOpacity, focusTween, playerVars,
                  focusedTile, isDragging >>

\* the pointer moves of a drag the model lets happen: deltaX = -50 * a
\* pixels moves x by a * y / 2, deltaY = -100 * b pixels moves z by b * y
PanMoves == { << 2, 0 >>, << 0, 0 - 1 >> }

\* handleMouseMove of the scene with the button held (handleMouseDown set
\* isDraggingRef, which no other handler reads): the pan position moves
\* by the pointer delta times 0.01 times the height, is clamped, and
\* updateCameraPosition() copies it to the camera
Pan(d) ==
  /\ cameraPositionRef' =
       ClampPan([cameraPositionRef EXCEPT !.x2 = @ + d[1] * cameraPositionRef.y,
                                          !.zA = @ + d[2] * cameraPositionRef.y])
  /\ cameraPos' = cameraPositionRef'
  /\ cameraLookAt' = LookAhead(cameraPositionRef')
  /\ last' = Other
  /\ UNCHANGED << probe, pointer, registryVars, tileVars, mapLevel, hookVars, currentTiles,
                  timelines, overlayOpacity, focusTween, playerVars,
                  focusedTile, isDragging >>

\* the timeline ThreeJSSceneManager.handleDescend / handleAscend starts;
\* it keeps the tiles, the level and the parent tile of its request
Timeline(dir, ts, lvl, q, r) ==
  [dir |-> dir, phase |-> "fadeIn", tiles |-> ts, mapLevel |-> lvl,
   q |-> q, r |-> r]

\* the overlay when a fade-in tween starts to run
FadeInStarted(o) == IF o = "transparent" THEN "partial" ELSE o

\* the Descend button: MapRenderer.handleDescend, and through onDescend
\* ThreeJSSceneManager.handleDescend
RequestDescend ==
  LET sel == IF CanDescend(focusedTile, mapLevel)
             THEN FindTile(currentTiles, tile, tile[focusedTile].q, tile[focusedTile].r)
             ELSE NoTile
      start == sel # NoTile
  IN  /\ start => Len(timelines) < MaxTimelines
      /\ timelines' =
           IF start
           THEN Append(timelines,
                       Timeline("descend", currentTiles,
                                Max2(tile[sel].mapLevel - 1, minLevel),
                                tile[sel].q, tile[sel].r))
           ELSE timelines
      /\ overlayOpacity' = IF start THEN FadeInStarted(overlayOpacity)
                           ELSE overlayOpacity
      /\ focusedTile' = NoTile
      /\ last' = IF focusedTile = NoTile THEN last
                  ELSE [op |-> "descend", ok |-> start, f |-> focusedTile]
      /\ UNCHANGED << probe, pointer, registryVars, tileVars, mapLevel, hookVars, currentTiles,
                      cameraVars, playerVars, isDragging >>

\* the Ascend button: MapRenderer.handleAscend, and through onAscend
\* ThreeJSSceneManager.handleAscend; focusedTile is kept
RequestAscend ==
  LET sel == IF CanAscend(focusedTile, mapLevel)
             THEN FindTile(currentTiles, tile, tile[focusedTile].q, tile[focusedTile].r)
             ELSE NoTile
      start == sel # NoTile
  IN  /\ start => Len(timelines) < MaxTimelines
      /\ timelines' =
           IF start
           THEN Append(timelines,
                       Timeline("ascend", currentTiles,
                                Min2(mapLevel + 1, maxLevel),
                                tile[sel].q, tile[sel].r))
           ELSE timelines
      /\ overlayOpacity' = IF start THEN FadeInStarted(overlayOpacity)
                           ELSE overlayOpacity
      /\ last' = IF focusedTile = NoTile THEN last
                  ELSE [op |-> "ascend", ok |-> start, f |-> focusedTile]
      /\ UNCHANGED << probe, pointer, registryVars, tileVars, mapLevel, hookVars, currentTiles,
                      cameraVars, playerVars, focusedTile, isDragging >>

----------------------------------------------------------------------------
(* ThreeJSSceneManager: the steps of a transition timeline *)

\* The first .call of the oldest timeline still fading in: disposeTiles()
\* on the tiles the timeline captured, onDescend / onAscend, camera and
\* player reset; then the re-render: the scene effect (currentTiles
\* changed), and if mapLevel changed the level-change effect (a fetch
\* unless one is in flight) and the tile-build effect on the gameState
\* held, whose tiles updateScene installs.  The camera and player values
\* the callback writes are overwritten by the scene effect of that
\* re-render, which creates a new camera and a new Player.
TimelineCall ==
  LET i == FirstInPhase(timelines, "fadeIn") IN
  /\ i # 0
  /\ LET tl       == timelines[i]
         W1       == DisposeAll(World, tl.tiles, 1)
         newLevel == IF tl.dir = "descend" THEN HexagonalMap_handleDescend(tl)
                     ELSE HexagonalMap_handleAscend(tl)
         changed  == newLevel # mapLevel
         rebuild  == changed /\ gameState # NoData
         data     == IF rebuild THEN gameState.tiles ELSE << >>
     IN  /\ nTiles + Len(data) <= MaxTiles
         /\ SetWorld(BuildFrom(W1, data, 1, newLevel))
         /\ mapLevel' = newLevel
         /\ tiles' = IF rebuild THEN NewIds(nTiles, data) ELSE tiles
         /\ currentTiles' = IF rebuild THEN NewIds(nTiles, data) ELSE << >>
         /\ SetFetch(IF changed THEN fetchTileData(Fetch, newLevel) ELSE Fetch)
         /\ timelines' = [timelines EXCEPT ![i].phase = "covered"]
  /\ overlayOpacity' = "opaque"
  /\ cameraPositionRef' = SceneEffectCamera(cameraPositionRef)
  /\ cameraPos' = SceneEffectCamera(cameraPositionRef)
  /\ cameraLookAt' = LookAhead(SceneEffectCamera(cameraPositionRef))
  /\ focusTween' = NoTween
  /\ player' = NewPlayer
  /\ pendingMoves' = << >>
  /\ last' = [op |-> "call", ok |-> TRUE, f |-> NoTile]
  /\ UNCHANGED << probe, pointer, gameState, focusedTile, isDragging >>

\* The second .call: on the next animation frame the fade-out tween of the
\* oldest covered timeline starts
FadeOutStart ==
  LET i == FirstInPhase(timelines, "covered") IN
  /\ i # 0
  /\ timelines' = [timelines EXCEPT ![i].phase = "fadeOut"]
  /\ overlayOpacity' = IF overlayOpacity = "opaque" THEN "partial"
                       ELSE overlayOpacity
  /\ last' = Other
  /\ UNCHANGED << probe, pointer, registryVars, tileVars, mapLevel, hookVars, currentTiles,
                  cameraVars, playerVars, focusedTile, isDragging >>

\* a fade-out tween that stops short of opacity 0
FadeOutEnd_StaysDimmed(tls) == "partial"

\* gsap.to(fadeOverlayRef.current.style, {opacity: 0, duration: 1}) has
\* completed and tls are the other timelines: a fade-in or fade-out tween
\* of another timeline that is still running keeps writing the opacity
FadeOutEnd(tls) ==
  IF \E j \in 1..Len(tls) : tls[j].phase \in {"fadeIn", "fadeOut"} THEN "partial"
  ELSE "transparent"

\* The fade-out tween of the oldest fading timeline completes
FadeOutComplete ==
  LET i == FirstInPhase(timelines, "fadeOut") IN
  /\ i # 0
  /\ timelines' = RemoveAt(timelines, i)
  /\ overlayOpacity' = FadeOutEnd(timelines')
  /\ last' = Other
  /\ UNCHANGED << probe, pointer, registryVars, tileVars, mapLevel, hookVars, currentTiles,
                  cameraVars, playerVars, focusedTile, isDragging >>

----------------------------------------------------------------------------
(* Functions applied on their own *)

Coords == { [q |-> cq, r |-> cr] : cq \in (0 - MaxCoord)..MaxCoord,
                                   cr \in (0 - MaxCoord)..MaxCoord }

\* tile lists of pairwise distinct coordinates, of length up to maxLen
TileLists(maxLen) ==
  UNION { { l \in [1..n -> Coords] : \A i, j \in 1..n : i # j => l[i] # l[j] } :
          n \in 1..maxLen }

\* HexagonTile constructor: position.set(x, 0, z) of the tile at (q, r)
TilePosition(q, r) == [x2 |-> TileX2(q), zB |-> TileZB(q, r)]

\* ThreeJSSceneManager.handleAscend: parentTilePosition =
\* (q * tileSize * 1.5, 0, r * tileSize * sqrt(3))
parentTilePosition(q, r) == [x2 |-> 3 * tileSize * q, zB |-> 2 * tileSize * r]

\* a tile constructed at c on a level, with or without its border, its
\* model instance attached (hasModel), its addModel still waiting (waits)
ATile(c, lvl, m, focused, hasModel, waits) ==
  [q |-> c.q, r |-> c.r, mapLevel |-> lvl, modelName |-> m,
   modelInstance |-> hasModel, awaiting |-> waits,
   focusBorder |-> focused, borders |-> IF focused THEN 1 ELSE 0,
   disposed |-> FALSE]

\* the states of one entry of HexagonTile.loadedModels
Entries ==
  { [present |-> FALSE, refCount |-> 0] } \cup
  { [present |-> TRUE, refCount |-> n] : n \in 1..MaxNear }

\* the registry and one tile, as dispose() reads and writes them
AWorld(t, lm) ==
  [tile |-> [i \in {1} |-> t], nTiles |-> 1, loadedModels |-> lm,
   modelLoadPromises |-> [m \in DOMAIN lm |-> "none"], freed |-> {},
   loadCount |-> [m \in DOMAIN lm |-> 0],
   held |-> [m \in DOMAIN lm |-> lm[m].refCount]]

\* two of the model names getModelNameForTerrain returns
DisposeModels ==
  { getModelNameForTerrain("grass"), getModelNameForTerrain("forest") }

\* the arguments drawn, with tile lists of length up to maxLen
PureInputs(maxLen) ==
  { [fn |-> "focusBorder", op |-> op,
     t0 |-> ATile(c, lvl, getModelNameForTerrain("grass"), f, FALSE, FALSE),
     done |-> FALSE, once |-> NoTileRec, twice |-> NoTileRec] :
      op \in {"add", "remove"}, c \in Coords, lvl \in minLevel..maxLevel,
      f \in BOOLEAN }
  \cup
  { [fn |-> "dispose",
     W |-> AWorld(ATile([q |-> 0, r |-> 0], initialMapLevel, m, f, st[1], st[2]), lm),
     done |-> FALSE, out |-> AWorld(NoTileRec, lm)] :
      m \in DisposeModels, f \in BOOLEAN,
      st \in { << TRUE, FALSE >>, << FALSE, TRUE >>, << FALSE, FALSE >> },
      lm \in [DisposeModels -> Entries] }
  \cup
  { [fn |-> "hexDistance", a |-> a, b |-> b, done |-> FALSE, ab |-> 0, ba |-> 0, aa |-> 0] :
      a \in Coords, b \in Coords }
  \cup
  { [fn |-> "project", c |-> c, done |-> FALSE, tile |-> TilePosition(0, 0),
     ascend |-> TilePosition(0, 0)] : c \in Coords }
  \cup
  UNION { { [fn |-> "findNearestTile", list |-> l, i |-> i, done |-> FALSE,
             out |-> NoTile] : i \in DOMAIN l } : l \in TileLists(maxLen) }

PureUnchanged ==
  UNCHANGED << pointer, registryVars, tileVars, mapLevel, hookVars, currentTiles,
               timelines, overlayOpacity, cameraVars, playerVars,
               focusedTile, isDragging, last >>

\* moveToTile's distance, both ways between a and b and from a to itself
ApplyHexDistance ==
  /\ probe.fn = "hexDistance" /\ ~probe.done
  /\ probe' = [probe EXCEPT !.done = TRUE,
                            !.ab = hexDistance(probe.a.q, probe.a.r, probe.b.q, probe.b.r),
                            !.ba = hexDistance(probe.b.q, probe.b.r, probe.a.q, probe.a.r),
                            !.aa = hexDistance(probe.a.q, probe.a.r, probe.a.q, probe.a.r)]
  /\ PureUnchanged

\* the position of the tile constructed at c and the position handleAscend
\* computes for parentTile c
ApplyProjection ==
  /\ probe.fn = "project" /\ ~probe.done
  /\ probe' = [probe EXCEPT !.done = TRUE,
                            !.tile = TilePosition(probe.c.q, probe.c.r),
                            !.ascend = parentTilePosition(probe.c.q, probe.c.r)]
  /\ PureUnchanged

\* findNearestTile at the position of the i-th tile of the list
ApplyFindNearestTile ==
  /\ probe.fn = "findNearestTile" /\ ~probe.done
  /\ LET c == probe.list[probe.i]
     IN  probe' = [probe EXCEPT !.done = TRUE,
                     !.out = findNearestTile(TilePosition(c.q, c.r),
                                             [k \in 1..Len(probe.list) |-> k],
                                             probe.list)]
  /\ PureUnchanged

\* addFocusBorder or removeFocusBorder, called once and called twice
ApplyFocusBorder ==
  /\ probe.fn = "focusBorder" /\ ~probe.done
  /\ LET tl   == [i \in {1} |-> probe.t0]
         one  == IF probe.op = "add" THEN addFocusBorder(tl, 1)
                 ELSE removeFocusBorder(tl, 1)
         two  == IF probe.op = "add" THEN addFocusBorder(one, 1)
                 ELSE removeFocusBorder(one, 1)
     IN  probe' = [probe EXCEPT !.done = TRUE, !.once = one[1], !.twice = two[1]]
  /\ PureUnchanged

\* dispose() of the tile of a registry
ApplyDispose ==
  /\ probe.fn = "dispose" /\ ~probe.done
  /\ probe' = [probe EXCEPT !.done = TRUE, !.out = dispose(probe.W, 1)]
  /\ PureUnchanged

----------------------------------------------------------------------------
(* Specifications *)

\* Navigation, tile lifecycle and asset registry: every task except the
\* pointer-drag events and the completion of the focus tween, which
\* neither read nor write the tiles, the registry, the level, the
\* timelines or the overlay
Next ==
  \/ \E data \in DataSets : FetchResolve(data)
  \/ FetchFail
  \/ \E m \in Models : LoadResolve(m)
  \/ \E m \in Models : LoadReject(m)
  \/ \E p \in ClickPoints : Click(p)
  \/ MoveComplete
  \/ RequestDescend
  \/ RequestAscend
  \/ TimelineCall
  \/ FadeOutStart
  \/ FadeOutComplete

Spec == Init /\ [][Next]_vars

\* Navigation alone: the tasks of Next without the loader's callbacks.  No
\* guard of a fetch, a click, a button or a timeline step reads the asset
\* registry, so the levels, tile sets, timelines, camera and overlay that
\* can be reached are those of Next.
NextNav ==
  \/ \E data \in DataSets : FetchResolve(data)
  \/ FetchFail
  \/ \E p \in ClickPoints : Click(p)
  \/ MoveComplete
  \/ RequestDescend
  \/ RequestAscend
  \/ TimelineCall
  \/ FadeOutStart
  \/ FadeOutComplete

SpecNav == Init /\ [][NextNav]_vars

\* Tile lifecycle and asset registry: the tasks of Next without the
\* failing fetch, which constructs and disposes no tile and leaves the
\* registry alone.
NextRegistry ==
  \/ \E data \in DataSets : FetchResolve(data)
  \/ \E m \in Models : LoadResolve(m)
  \/ \E m \in Models : LoadReject(m)
  \/ \E p \in ClickPoints : Click(p)
  \/ MoveComplete
  \/ RequestDescend
  \/ RequestAscend
  \/ TimelineCall
  \/ FadeOutStart
  \/ FadeOutComplete

SpecRegistry == Init /\ [][NextRegistry]_vars

\* All tasks
NextAll ==
  \/ Next
  \/ MouseDown
  \/ MouseMoveFar
  \/ FocusTweenComplete
  \/ FetchResolve(TileDataFar)

SpecAll == Init /\ [][NextAll]_vars

\* the Descend button pressed while no transition is in flight
DescendWhenIdle == timelines = << >> /\ RequestDescend

\* Functions of the program applied on their own to arguments drawn from
\* bounded sets; the program itself stays as mounted
InitPure == ProgramInit /\ probe \in PureInputs(MaxNear)

NextPure ==
  \/ ApplyHexDistance
  \/ ApplyProjection
  \/ ApplyFindNearestTile
  \/ ApplyFocusBorder
  \/ ApplyDispose

SpecPure == InitPure /\ [][NextPure]_vars

\* the ground points clicked in play: ClickPoints and the centre of (3, 0)
PlayPoints == ClickPoints \cup { [x2 |-> TileX2(3), zB |-> TileZB(3, 0)] }

\* the Ascend button pressed while no transition is in flight
AscendWhenIdle == timelines = << >> /\ RequestAscend

\* The avatar: the fetches that succeed, clicks, the ends of the focus and
\* move tweens, the two buttons pressed between transitions, and the steps
\* of the timelines
NextPlay ==
  \/ \E data \in PlayData : FetchResolve(data)
  \/ \E p \in PlayPoints : Click(p)
  \/ FocusTweenComplete
  \/ MoveComplete
  \/ DescendWhenIdle
  \/ AscendWhenIdle
  \/ TimelineCall
  \/ FadeOutStart
  \/ FadeOutComplete

SpecPlay == Init /\ [][NextPlay]_vars

\* The camera: the fetches that succeed, clicks, the end of the focus
\* tween, wheel and drag, the two buttons pressed between transitions, and
\* the steps of the timelines
NextCamera ==
  \/ \E data \in DataSets : FetchResolve(data)
  \/ \E p \in ClickPoints : Click(p)
  \/ FocusTweenComplete
  \/ \E k \in WheelSteps : Wheel(k)
  \/ \E d \in PanMoves : Pan(d)
  \/ DescendWhenIdle
  \/ AscendWhenIdle
  \/ TimelineCall
  \/ FadeOutStart
  \/ FadeOutComplete

SpecCamera == Init /\ [][NextCamera]_vars

\* The tasks that decide the overlay: fetches, clicks, the two buttons and
\* the steps of the timelines. Ascend, which keeps the focus, is pressed at
\* any time, also during a transition; Descend is pressed between
\* transitions. gsap's ticker runs every animation frame, so a tween that
\* is due completes and a .call that is due is made: the three timeline
\* steps are weakly fair. Nothing obliges the user or the network.
NextOverlay ==
  \/ \E data \in DataSets : FetchResolve(data)
  \/ FetchFail
  \/ \E p \in ClickPoints : Click(p)
  \/ DescendWhenIdle
  \/ RequestAscend
  \/ TimelineCall
  \/ FadeOutStart
  \/ FadeOutComplete

SpecOverlay ==
  /\ Init
  /\ [][NextOverlay]_vars
  /\ WF_vars(TimelineCall)
  /\ WF_vars(FadeOutStart)
  /\ WF_vars(FadeOutComplete)

\* The tasks that change the level and the data: fetches that succeed,
\* clicks that focus a tile, the two buttons pressed between transitions,
\* and the steps of the timelines.  No fetch fails.
NextLevels ==
  \/ \E data \in LevelData : FetchResolve(data)
  \/ \E p \in ClickPoints : Click(p)
  \/ DescendWhenIdle
  \/ AscendWhenIdle
  \/ TimelineCall
  \/ FadeOutStart
  \/ FadeOutComplete

SpecLevels == Init /\ [][NextLevels]_vars

\* the centres of the tiles (3, 0) and (-3, 0)
TwoSidesPoints == { [x2 |-> TileX2(3), zB |-> TileZB(3, 0)],
                    [x2 |-> TileX2(0 - 3), zB |-> TileZB(0 - 3, 0)] }

\* Clicks in quick succession: the data arrives, tiles are clicked (press
\* and release without a drag in between, or with one), and the tweens
\* complete.  A move may be requested while the tween of the move before
\* it is still running: movePlayer starts a new gsap tween each time.
NextRapid ==
  \/ FetchResolve(TileDataTwoSides)
  \/ Press
  \/ Drag
  \/ \E p \in TwoSidesPoints : Release(p, MaxMoves + 1)
  \/ FocusTweenComplete
  \/ MoveComplete

SpecRapid == Init /\ [][NextRapid]_vars

\* The wheel on the map: the data arrives, the wheel is turned, the map is
\* dragged, a tile is clicked and the focus tween completes.
NextWheel ==
  \/ \E data \in DataSets : FetchResolve(data)
  \/ \E k \in WheelSteps : \E n \in WheelListeners : WheelEvent(k, n)
  \/ \E d \in PanMoves : Pan(d)
  \/ \E p \in ClickPoints : Click(p)
  \/ FocusTweenComplete

SpecWheel == Init /\ [][NextWheel]_vars

\* Asset loads that succeed or fail: the data arrives, the loader calls
\* back, tiles are clicked, and a descend rebuilds the tiles.
NextLoad ==
  \/ \E data \in DataSets : FetchResolve(data)
  \/ \E m \in Models : LoadResolve(m)
  \/ \E m \in Models : LoadReject(m)
  \/ \E p \in ClickPoints : Click(p)
  \/ MoveComplete
  \/ DescendWhenIdle
  \/ TimelineCall
  \/ FadeOutStart
  \/ FadeOutComplete

SpecLoad == Init /\ [][NextLoad]_vars

\* The pointer on the map: the data arrives, the button goes down, the
\* pointer is dragged, the button goes up over a ground point; the tweens
\* a pick starts complete, and the Descend button starts a transition,
\* whose first call leaves the scene without tiles.
NextPointer ==
  \/ \E data \in DataSets : FetchResolve(data)
  \/ Press
  \/ Drag
  \/ \E p \in ClickPoints : Release(p, MaxMoves)
  \/ FocusTweenComplete
  \/ MoveComplete
  \/ DescendWhenIdle
  \/ TimelineCall
  \/ FadeOutStart
  \/ FadeOutComplete

SpecPointer == Init /\ [][NextPointer]_vars

----------------------------------------------------------------------------
(* Properties *)

\* the tiles constructed so far
Created == 1..nTiles

\* tile t is constructed in the step
ConstructedInStep(t) == t > nTiles /\ t <= nTiles'

\* a tile with model m is constructed in the step, so loadGLTFModel(m) runs
AcquiredInStep(m) ==
  \E t \in TileIds : ConstructedInStep(t) /\ tile'[t].modelName = m

\* number of dispose() calls a timeline's disposeTiles makes on tiles of model m
ReleasesOf(ts, m) == Cardinality({i \in 1..Len(ts) : tile[ts[i]].modelName = m})

\* number of tiles of model m constructed in the step
AcquisitionsInStep(m) ==
  Cardinality({t \in TileIds : ConstructedInStep(t) /\ tile'[t].modelName = m})

\* C1: at most one level transition is in flight at any time; a request
\* made while a transition has started and not finished starts no second one.
C1_AtMostOneTransition == Len(timelines) <= 1

\* C2: when N tiles of one model were constructed before its load completed,
\* then once the load has completed and the N acquisitions have resolved the
\* cache entry of the model has refCount = N.
C2_RefCountCountsJoiners ==
  [][\A m \in Models :
       (modelLoadPromises[m] = "pending" /\ modelLoadPromises'[m] = "resolved")
       => loadedModels'[m].refCount
            = Cardinality({t \in Created : tile[t].awaiting /\ tile[t].modelName = m})]_vars

\* C3: an acquire of a model that is neither cached nor loading starts
\* exactly one load (and later acquires join it while it is pending).
C3_UncachedAcquireStartsLoad ==
  [][\A m \in Models :
       (~loadedModels[m].present /\ modelLoadPromises[m] # "pending"
          /\ AcquiredInStep(m))
       => (loadCount'[m] = loadCount[m] + 1
             /\ modelLoadPromises'[m] = "pending")]_vars

\* C4: a dispose of a tile whose model is cached decrements the entry's
\* refCount by exactly one; the entry stays while refCount > 0 and is removed,
\* its resources freed, in the step in which refCount becomes 0; an entry in
\* the cache has refCount >= 1, and none is left once as many cached
\* releases as resolved acquisitions have been made.  (The first .call of a
\* timeline makes its releases and then the acquisitions of the rebuild.)
C4_ReleaseDecrementsAndEvicts ==
  /\ [](\A m \in Models :
          loadedModels[m].present
            => (loadedModels[m].refCount >= 1 /\ loadedModels[m].refCount <= held[m]))
  /\ [][\A m \in Models :
          loadedModels[m].present =>
            IF last'.op = "call" /\ TimelineCall
            THEN LET k == ReleasesOf(timelines[FirstInPhase(timelines, "fadeIn")].tiles, m)
                 IN  IF loadedModels[m].refCount > k
                     THEN /\ loadedModels'[m].present
                          /\ loadedModels'[m].refCount
                               = loadedModels[m].refCount - k + AcquisitionsInStep(m)
                          /\ (m \in freed') = (m \in freed)
                     ELSE /\ ~loadedModels'[m].present
                          /\ m \in freed'
            ELSE /\ loadedModels'[m].present
                 /\ loadedModels'[m].refCount >= loadedModels[m].refCount]_vars

\* C4 witness: the transition whose first .call has just run released a
\* tile of a model whose entry stays in the cache (refCount was above 1)
C4_Witness ==
  /\ last.op = "call"
  /\ LET covered == {i \in 1..Len(timelines) : timelines[i].phase = "covered"}
         i == CHOOSE c \in covered : \A d \in covered : d <= c
     IN  \E j \in 1..Len(timelines[i].tiles) :
           loadedModels[tile[timelines[i].tiles[j]].modelName].present

\* C5: after the load of a model has failed, a later acquire of that model
\* starts a new load.
C5_AcquireAfterFailureRetries ==
  [][\A m \in Models :
       (modelLoadPromises[m] = "rejected" /\ AcquiredInStep(m))
       => (modelLoadPromises'[m] = "pending"
             /\ loadCount'[m] = loadCount[m] + 1)]_vars

\* C6: a tile disposed while its acquisition was pending attaches no model
\* instance when the load resolves: a disposed tile never has a model instance.
C6_DisposedNeverGainsModel ==
  \A t \in Created : tile[t].disposed => ~tile[t].modelInstance

\* C7: no non-disposed tile has attached a model whose cache entry has been
\* evicted and whose resources were freed.
C7_NoUseAfterFree ==
  \A t \in Created :
    (~tile[t].disposed /\ tile[t].modelInstance) => tile[t].modelName \notin freed

\* C8: every tile that is no longer part of the tile set (of the hook or of
\* the scene manager) has had dispose() called on it.
C8_DroppedTilesWereDisposed ==
  \A t \in Created :
    (t \notin Range(tiles) /\ t \notin Range(currentTiles)) => tile[t].disposed

\* C9: a descend request made with no tile focused or at minLevel starts no
\* transition and leaves the level, the tile set, the camera and the overlay
\* unchanged.
C9_InvalidDescendIgnored ==
  [][((focusedTile = NoTile \/ mapLevel = minLevel) /\ RequestDescend)
       => UNCHANGED << mapLevel, timelines, tiles, currentTiles, tile,
                       nTiles, cameraVars, overlayOpacity >>]_vars

\* C9 witness: a descend request with a tile focused was ignored at minLevel
C9_Witness ==
  /\ last.op = "descend"
  /\ ~last.ok
  /\ last.f # NoTile
  /\ mapLevel = minLevel
  /\ FindTile(currentTiles, tile, tile[last.f].q, tile[last.f].r) # NoTile

\* C10: an ascend request made at maxLevel starts no transition and leaves
\* the level (and with it the Navigation Context) unchanged.
C10_AscendAtMaxLevelIgnored ==
  [][(mapLevel = maxLevel /\ RequestAscend)
       => UNCHANGED << mapLevel, timelines, tiles, currentTiles, hookVars >>]_vars

\* C10 witness: an ascend request with a tile focused was ignored at maxLevel
C10_Witness ==
  /\ last.op = "ascend"
  /\ ~last.ok
  /\ last.f # NoTile
  /\ mapLevel = maxLevel
  /\ FindTile(currentTiles, tile, tile[last.f].q, tile[last.f].r) # NoTile

\* C11: the current level is always within 1..4, and the level switch of
\* every transition changes it by exactly one: a descend that reaches its
\* callback lowers it by one, an ascend raises it by one.
C11_LevelStepsByOne ==
  /\ [](mapLevel \in minLevel..maxLevel)
  /\ [][IF TimelineCall
        THEN LET tl == timelines[FirstInPhase(timelines, "fadeIn")]
             IN  mapLevel' = IF tl.dir = "descend" THEN mapLevel - 1 ELSE mapLevel + 1
        ELSE mapLevel' = mapLevel]_vars

\* C12: the fetch that a descend into the tile at C starts is for level
\* L - 1 and carries C as its parentTile.
C12_DescendFetchCarriesParentTile ==
  [][IF TimelineCall
     THEN LET tl == timelines[FirstInPhase(timelines, "fadeIn")]
              rq == fetchRequest(fetchLevel')
          IN  (tl.dir = "descend" /\ ~isFetching /\ isFetching')
                => /\ rq.level = mapLevel - 1
                   /\ "parentTile" \in DOMAIN rq
                   /\ rq.parentTile = [q |-> tl.q, r |-> tl.r]
     ELSE TRUE]_vars

\* C13: an ascend leads to the parentTile that the descend into the current
\* sub-map recorded: when the latest level switch was a descend into the
\* tile at C, the ascend requested next is toward C.
C13_AscendReturnsToRecordedParent ==
  [][(RequestAscend /\ Len(timelines') > Len(timelines))
       => \A i \in 1..Len(timelines) :
            ( /\ timelines[i].dir = "descend"
              /\ timelines[i].phase # "fadeIn"
              /\ \A j \in (i + 1)..Len(timelines) : timelines[j].phase = "fadeIn" )
              => LET new == timelines'[Len(timelines')]
                 IN  new.q = timelines[i].q /\ new.r = timelines[i].r]_vars

\* C14: while a descend is still fading in (camera approach and overlay
\* fade-in not yet complete) the current level stays the level the descend
\* was requested at and none of the tiles it is to tear down is disposed;
\* the step that ends its fade-in sets the level the descend asked for.
C14_DescendSwitchesAfterFadeIn ==
  [][\A i \in 1..Len(timelines) :
       (timelines[i].dir = "descend" /\ timelines[i].phase = "fadeIn")
         => IF TimelineCall /\ i = FirstInPhase(timelines, "fadeIn")
            THEN mapLevel' = timelines[i].mapLevel
            ELSE /\ mapLevel' = mapLevel
                 /\ \A t \in Range(timelines[i].tiles) :
                      tile'[t].disposed = tile[t].disposed]_vars

\* no step of any timeline can be taken: every timeline waits for its
\* callback, and the bound on tiles holds back the oldest one's rebuild
TimelinesStalled ==
  /\ timelines # << >>
  /\ \A j \in 1..Len(timelines) : timelines[j].phase = "fadeIn"
  /\ timelines[1].mapLevel # mapLevel
  /\ gameState # NoData
  /\ nTiles + Len(gameState.tiles) > MaxTiles

C16_FailedFetchLeavesNoTiles ==
  [][(FetchFail /\ fetchLevel = mapLevel /\ gameState # NoData /\ gameState.level # mapLevel)
       => currentTiles' = << >>]_vars

\* C17: at most one tile carries a focus decoration, and a tile that
\* carries one is the tile recorded as focusedTile (none when it is null).
C17_OneFocusDecoration ==
  /\ Cardinality({t \in Created : tile[t].focusBorder}) <= 1
  /\ \A t \in Created : tile[t].focusBorder => focusedTile = t

\* C18: a button press that starts a descend or an ascend transition leaves
\* focusedTile null.
C18_NavigationClearsFocus ==
  [][((RequestDescend \/ RequestAscend) /\ Len(timelines') > Len(timelines))
       => focusedTile' = NoTile]_vars

\* C19: a click whose ground point lies under no tile leaves focusedTile
\* null and no tile with a focus decoration.
C19_ClickOnEmptySpaceClearsFocus ==
  [][\A p \in ClickPoints :
       (Click(p) /\ \A i \in 1..Len(currentTiles) :
                      ~UnderTile(p, tile[currentTiles[i]].q, tile[currentTiles[i]].r))
         => /\ focusedTile' = NoTile
            /\ \A t \in Range(currentTiles) : ~tile'[t].focusBorder]_vars

\* C20: the camera's pan position always has x within [-mapSize, mapSize]
\* and z within [0, 3*mapSize]: clamping it changes nothing.
C20_CameraPanWithinBounds ==
  /\ ClampPan(cameraPositionRef) = cameraPositionRef
  /\ ClampPan(cameraPos) = cameraPos

\* C23: the hex distance is symmetric and zero from a coordinate to itself.
C23_HexDistanceSymmetric ==
  (probe.fn = "hexDistance" /\ probe.done) => (probe.ab = probe.ba /\ probe.aa = 0)

\* the distance between two coordinates that differ has been taken
C23_Witness ==
  probe.fn = "hexDistance" /\ probe.done /\ probe.a # probe.b /\ probe.ab > 0

\* C24: the position handleAscend computes for parentTile (q, r) is the
\* position of the tile constructed at (q, r).
C24_AscendProjectionAgrees ==
  (probe.fn = "project" /\ probe.done) => probe.ascend = probe.tile

\* C25: findNearestTile at the position of a tile of a list of pairwise
\* distinct coordinates returns that tile.
C25_NearestRecoversTile ==
  (probe.fn = "findNearestTile" /\ probe.done) => probe.out = probe.i

\* the search ran over two tiles and the tile asked for is the second
C25_Witness ==
  /\ probe.fn = "findNearestTile" /\ probe.done
  /\ Len(probe.list) = 2 /\ probe.i = 2 /\ probe.out = 2

\* C26: addFocusBorder on a tile that has a border and removeFocusBorder on
\* a tile that has none change nothing, a second call of either changes
\* nothing more, a tile never holds more than one border group, and the
\* tile's q, r and mapLevel are those it had before the call.
C26_FocusBorderIdempotent ==
  (probe.fn = "focusBorder" /\ probe.done) =>
    /\ probe.twice = probe.once
    /\ probe.once.borders <= 1
    /\ probe.once.focusBorder = (probe.op = "add")
    /\ probe.once.borders = (IF probe.op = "add" THEN 1 ELSE 0)
    /\ (probe.t0.focusBorder = (probe.op = "add")) => probe.once = probe.t0
    /\ probe.once.q = probe.t0.q /\ probe.once.r = probe.t0.r
    /\ probe.once.mapLevel = probe.t0.mapLevel

C26_Witness ==
  /\ probe.fn = "focusBorder" /\ probe.done
  /\ probe.op = "add" /\ probe.t0.focusBorder
  /\ probe.t0.q # 0 /\ probe.once.borders = 1

\* C27: right after dispose() the tile has no border and no model instance,
\* whether it was focused or not and whether its model had arrived or not,
\* and the registry entry of every other model name is as it was.
C27_DisposeDetachesAll ==
  (probe.fn = "dispose" /\ probe.done) =>
    /\ ~probe.out.tile[1].focusBorder
    /\ probe.out.tile[1].borders = 0
    /\ ~probe.out.tile[1].modelInstance
    /\ \A m \in DisposeModels \ {probe.W.tile[1].modelName} :
         probe.out.loadedModels[m] = probe.W.loadedModels[m]

C27_Witness ==
  /\ probe.fn = "dispose" /\ probe.done
  /\ probe.W.tile[1].focusBorder /\ probe.W.tile[1].awaiting
  /\ \E m \in DisposeModels \ {probe.W.tile[1].modelName} :
       probe.W.loadedModels[m].present
  /\ probe.out.loadedModels # probe.W.loadedModels

\* C21: a call of handleWheel whose new height would be at most 2*tileSize
\* or at least 4*mapSize leaves the height as it was; an accepted one moves
\* the camera along the forward vector only: x stays and z changes by as
\* much as the height.
C21_ZoomAlongForward ==
  [][\A k \in WheelSteps :
       Wheel(k) =>
         IF ZoomAccepted(cameraPositionRef.y + k)
         THEN /\ cameraPositionRef'.x2 = cameraPositionRef.x2
              /\ cameraPositionRef'.zB = cameraPositionRef.zB
              /\ cameraPositionRef'.zA - cameraPositionRef.zA
                   = cameraPositionRef'.y - cameraPositionRef.y
         ELSE cameraPositionRef'.y = cameraPositionRef.y]_vars

\* C30: whenever no transition timeline is running, the camera looks at
\* the ground point (x, 0, z - y) for its position (x, y, z).
C30_CameraLooksAhead ==
  timelines = << >> =>
    /\ cameraLookAt.x2 = cameraPos.x2
    /\ cameraLookAt.zA = cameraPos.zA - cameraPos.y
    /\ cameraLookAt.zB = cameraPos.zB

\* after a level switch the camera has been zoomed out, and then focused
\* on a tile, which took it beyond the pan range
C30_Witness ==
  /\ timelines = << >>
  /\ mapLevel # initialMapLevel
  /\ cameraPos.y > size * tileSize
  /\ cameraPos.zA > 3 * size * tileSize
  /\ cameraLookAt.zA = cameraPos.zA - cameraPos.y

\* C22: a click hands the move to the clicked tile to movePlayer only if
\* the hex distance from the player's coordinate at that moment to the
\* tile is less than 4; otherwise no move is started; in both cases the
\* click itself leaves the player's coordinate as it is.
C22_MoveWithinRange ==
  [][\A p \in PlayPoints :
       Click(p) =>
         LET t == findNearestTile(p, currentTiles, tile)
         IN  /\ player' = player
             /\ pendingMoves' =
                  IF hexDistance(player.q, player.r, tile[t].q, tile[t].r) < 4
                  THEN Append(pendingMoves, [q |-> tile[t].q, r |-> tile[t].r])
                  ELSE pendingMoves]_vars

\* the tile at distance 4 from the player has just been clicked and no
\* move was started
C22_Witness ==
  /\ focusedTile # NoTile
  /\ focusTween.on
  /\ hexDistance(player.q, player.r, tile[focusedTile].q, tile[focusedTile].r) = 4
  /\ pendingMoves = << >>

\* C28: the step that ends the fade-in of a descend, and every step that
\* installs tiles, leaves the avatar at (0, 0) with no move under way and
\* the camera at the framing of the initial mount, at (0, size*tileSize,
\* size*tileSize) looking at the origin; the steps of the fade-out change
\* neither, so that they hold when the transition has completed unless a
\* click, a drag or a wheel turn came since.
C28_DescendResetsAvatarAndCamera ==
  [][/\ ( \/ ( /\ TimelineCall
               /\ timelines[FirstInPhase(timelines, "fadeIn")].dir = "descend" )
          \/ (currentTiles' # currentTiles /\ currentTiles' # << >>) )
        => /\ player' = [q |-> 0, r |-> 0]
           /\ pendingMoves' = << >>
           /\ cameraPos' = Pos(0, size * tileSize, size * tileSize, 0)
           /\ cameraLookAt' = [x2 |-> 0, zA |-> 0, zB |-> 0]
     /\ (FadeOutStart \/ FadeOutComplete)
        => UNCHANGED << player, pendingMoves, cameraPos, cameraLookAt >>]_vars

\* a descend from a level-2 map whose tile at (3, 0) is now disposed has
\* completed, the tiles fetched for level 1 are installed, and the avatar
\* and the camera are at their defaults
C28_Witness ==
  /\ timelines = << >>
  /\ mapLevel = initialMapLevel - 1
  /\ gameState # NoData /\ gameState.level = mapLevel
  /\ currentTiles # << >>
  /\ \E t \in Created : tile[t].disposed /\ tile[t].q = 3
                         /\ tile[t].mapLevel = initialMapLevel
  /\ player = [q |-> 0, r |-> 0] /\ pendingMoves = << >>
  /\ cameraPos = Pos(0, size * tileSize, size * tileSize, 0)

\* C29: the step that ends the fade-in of an ascend toward P leaves the
\* avatar at coordinate P.
C29_AscendPutsAvatarAtParent ==
  [][( /\ TimelineCall
       /\ timelines[FirstInPhase(timelines, "fadeIn")].dir = "ascend" )
       => LET tl == timelines[FirstInPhase(timelines, "fadeIn")]
          IN  player' = [q |-> tl.q, r |-> tl.r]]_vars

\* C31: a click that ends a press during which the pointer went more than
\* 5 pixels from where it was pressed changes neither the focused tile nor
\* the player's coordinate, and requests no move.
C31_DraggedClickPicksNothing ==
  [][\A p \in ClickPoints :
       (pointer.moved /\ Release(p, MaxMoves))
         => /\ focusedTile' = focusedTile
            /\ player' = player
            /\ pendingMoves' = pendingMoves]_vars

\* number of tiles of model m among ts that have not been disposed before
FirstReleasesOf(ts, m) ==
  Cardinality({i \in 1..Len(ts) : tile[ts[i]].modelName = m
                                    /\ ~tile[ts[i]].disposed})

\* C32: a second dispose() of a tile decrements nothing: the disposeTiles
\* of a transition decrements the refCount of a cached model once for each
\* of its tiles that had not been disposed before, and not at all for a
\* tile that an earlier, overlapping transition disposed.
C32_OneDecrementPerTile ==
  [][TimelineCall =>
       \A m \in Models :
         LET k == FirstReleasesOf(timelines[FirstInPhase(timelines, "fadeIn")].tiles, m)
         IN  (loadedModels[m].present /\ loadedModels[m].refCount > k)
               => /\ loadedModels'[m].present
                  /\ loadedModels'[m].refCount
                       = loadedModels[m].refCount - k + AcquisitionsInStep(m)]_vars

\* C33: at most one tile-data request is in flight; a fetch asked for by a
\* level change while a request is in flight sends nothing and leaves that
\* request as it is; the step in which a request succeeds or fails clears
\* the in-flight flag, and the flag is set only while a request is in
\* flight, so it never blocks a later fetch.
C33_OneFetchInFlight ==
  /\ [](inFlight <= 1 /\ (isFetching <=> inFlight = 1))
  /\ [][(isFetching /\ mapLevel' # mapLevel)
          => (inFlight' = inFlight /\ fetchLevel' = fetchLevel)]_vars
  /\ [][(FetchFail \/ \E data \in DataSets : FetchResolve(data))
          => ~isFetching']_vars

\* C33 witness: the level has changed while the request for another level
\* was in flight, and that request is still the only one
C33_Witness ==
  /\ isFetching
  /\ inFlight = 1
  /\ fetchLevel # mapLevel
  /\ last.op = "call"

\* C34: when no fetch is in flight (and none has failed), the tile data
\* held, from which the tiles shown were built, was fetched for the
\* current level.
C34_DataIsForCurrentLevel ==
  (~isFetching /\ gameState # NoData) => gameState.level = mapLevel

\* C35: every player.moveTo puts the player at a coordinate at hex distance
\* less than 4 from the coordinate it had immediately before, also when
\* moves were requested while earlier move tweens were still running.
C35_EveryMoveWithinRange ==
  [][MoveComplete
       => hexDistance(player.q, player.r, player'.q, player'.r) < movementRange]_vars

\* C36: one wheel event applies at most one zoom step to the camera
\* position: the position after the event is the position one call of
\* handleWheel gives (one step along forward, or none when the height is
\* refused), however many scene set-ups came before.
C36_OneZoomStepPerWheelEvent ==
  [][\A k \in WheelSteps : \A n \in WheelListeners :
       WheelEvent(k, n) => cameraPositionRef' = handleWheel(cameraPositionRef, k)]_vars

\* the load of the model of tile t has failed
LoadFailed(t) == modelLoadPromises[tile[t].modelName] = "rejected"

\* C37: the step in which the load of a model fails changes nothing but
\* the tiles that waited for it, which are left with no model, in the tile
\* set and at their coordinates; no cache entry exists for a model whose
\* load has failed and no tile of it has a model attached; and a click on
\* such a tile picks and focuses it.
C37_FailedLoadLeavesTileUsable ==
  /\ [][\A m \in Models :
          LoadReject(m)
            => /\ UNCHANGED << currentTiles, tiles, gameState, nTiles, timelines,
                              overlayOpacity, focusedTile, loadedModels >>
               /\ \A t \in Created :
                    /\ tile'[t].q = tile[t].q /\ tile'[t].r = tile[t].r
                    /\ tile'[t].focusBorder = tile[t].focusBorder
                    /\ tile'[t].modelInstance = tile[t].modelInstance]_vars
  /\ [](\A t \in Created :
          LoadFailed(t) => /\ ~loadedModels[tile[t].modelName].present
                           /\ ~tile[t].modelInstance
                           /\ ~tile[t].awaiting)
  /\ [][\A p \in ClickPoints :
          (Click(p) /\ LoadFailed(findNearestTile(p, currentTiles, tile)))
            => /\ focusedTile' = findNearestTile(p, currentTiles, tile)
               /\ tile'[focusedTile'].focusBorder]_vars

\* C37 witness: a tile whose model failed to load is in the tile set, has
\* been clicked and carries the focus border
C37_Witness ==
  \E i \in 1..Len(currentTiles) :
    /\ LoadFailed(currentTiles[i])
    /\ focusedTile = currentTiles[i]
    /\ tile[currentTiles[i]].focusBorder
    /\ ~tile[currentTiles[i]].modelInstance

====
